---- MODULE Spec2Model ----
(***************************************************************************)
(* Model of the image-generation proxy of charanch23/chara.                *)
(*                                                                         *)
(*   src/index.js          the Hugging Face ("inference") backend          *)
(*   src/unnamed/part_000  the OpenAI ("synchronous") backend              *)
(*                                                                         *)
(* Text is a sequence of atoms.  An atom is one character, except for the  *)
(* literals the program itself writes (messages, environment values),      *)
(* which are kept as one atom each.  Everything the program measures or    *)
(* scans (startsWith, the base64 pattern, length, split, trim, parseInt)   *)
(* is character text.                                                      *)
(*                                                                         *)
(* A JavaScript value is a record [t, s, n, keys, kids]:                   *)
(*   t = "undef" | "null" | "bool" | "num" | "nan" | "str" | "arr" | "obj" *)
(*   s the text of a string, n the value of a number (1/0 for a bool),     *)
(*   kids the elements of an array or the values of an object in the order *)
(*   of Object.values, keys the object's keys in that same order.          *)
(***************************************************************************)
EXTENDS Integers, Sequences, FiniteSets, TLC

VARIABLES
    \* ---- the server: one deployment, its requests and upstream calls
    cfg,        \* the deployment: which backend runs, PROVIDER, the credential
    pc,         \* per request: "idle" | "waiting" | "done"
    body,       \* per request: the JSON body of the POST
    count,      \* per request: the loop bound of generateWithHuggingFace,
                \*              or the n of the OpenAI payload
    idx,        \* per request: the loop variable i
    results,    \* per request: the local array `results`
    inflight,   \* the upstream calls awaiting their response
    issued,     \* per request: the upstream calls issued so far, in order
    returned,   \* per request: how many upstream calls have returned
    responses,  \* per request: the responses written to res, in order
    \* ---- the size mapping of callHuggingFaceModel, on its own
    sizeIn, sizeOut,
    \* ---- the response handling of callHuggingFaceModel, on its own
    payload, ctype, hfOut

serverVars == <<cfg, pc, body, count, idx, results, inflight, issued, returned, responses>>
sizeVars   == <<sizeIn, sizeOut>>
normVars   == <<payload, ctype, hfOut>>
vars       == <<serverVars, sizeVars, normVars>>

----------------------------------------------------------------------------
(* Bounds of the model                                                     *)

\* the requests carry n in -1 .. MaxN (besides absent and non-numeric)
MaxN == 2
\* the longest options.size text tried by the size mapping
MaxSizeLen == 4
\* how many times a payload is nested into an enclosing array or object
MaxDepth == 2

----------------------------------------------------------------------------
(* Text                                                                    *)

Rep(c, k) == [i \in 1..k |-> c]

Digits == <<"0", "1", "2", "3", "4", "5", "6", "7", "8", "9">>
IsDigit(c) == \E d \in 1..10 : Digits[d] = c
DigitVal(c) == (CHOOSE d \in 1..10 : Digits[d] = c) - 1

\* the characters String.prototype.trim and parseInt skip
IsSpace(c) == c \in {" ", "\t", "\n"}

Lower == {"a", "b", "c", "d", "e", "f", "g", "h", "i", "j", "k", "l", "m",
          "n", "o", "p", "q", "r", "s", "t", "u", "v", "w", "x", "y", "z"}
Upper == {"A", "B", "C", "D", "E", "F", "G", "H", "I", "J", "K", "L", "M",
          "N", "O", "P", "Q", "R", "S", "T", "U", "V", "W", "X", "Y", "Z"}

StartsWith(s, p) == Len(s) >= Len(p) /\ SubSeq(s, 1, Len(p)) = p

RECURSIVE TrimLeft(_)
TrimLeft(s) == IF s # <<>> /\ IsSpace(Head(s)) THEN TrimLeft(Tail(s)) ELSE s

RECURSIVE TrimRight(_)
TrimRight(s) ==
    IF s # <<>> /\ IsSpace(s[Len(s)]) THEN TrimRight(SubSeq(s, 1, Len(s) - 1)) ELSE s

\* String.prototype.trim
Trim(s) == TrimRight(TrimLeft(s))

\* String.prototype.split with a one-character separator
RECURSIVE SplitAcc(_, _, _)
SplitAcc(s, sep, cur) ==
    IF s = <<>> THEN <<cur>>
    ELSE IF Head(s) = sep THEN <<cur>> \o SplitAcc(Tail(s), sep, <<>>)
    ELSE SplitAcc(Tail(s), sep, Append(cur, Head(s)))

Split(s, sep) == SplitAcc(s, sep, <<>>)

\* the decimal digits of a natural number
RECURSIVE NatToText(_)
NatToText(k) ==
    IF k < 10 THEN <<Digits[k + 1]>> ELSE Append(NatToText(k \div 10), Digits[(k % 10) + 1])

\* String(k) for an integer k
IntToText(k) == IF k < 0 THEN <<"-">> \o NatToText(-k) ELSE NatToText(k)

----------------------------------------------------------------------------
(* Numbers that may be NaN                                                 *)

NaN == [nan |-> TRUE, v |-> 0]
Num(k) == [nan |-> FALSE, v |-> k]

\* the longest prefix of digits of s, as (value, digits read)
RECURSIVE DigitsPrefix(_, _, _)
DigitsPrefix(s, acc, read) ==
    IF s # <<>> /\ IsDigit(Head(s))
    THEN DigitsPrefix(Tail(s), 10 * acc + DigitVal(Head(s)), read + 1)
    ELSE <<acc, read>>

\* parseInt(s, 10) on text: leading white space, an optional sign, then the
\* longest run of digits; whatever follows is ignored; no digit gives NaN
parseInt(s) ==
    LET t    == TrimLeft(s)
        neg  == t # <<>> /\ Head(t) = "-"
        sgn  == t # <<>> /\ Head(t) \in {"-", "+"}
        rest == IF sgn THEN Tail(t) ELSE t
        dp   == DigitsPrefix(rest, 0, 0)
    IN  IF dp[2] = 0 THEN NaN ELSE Num(IF neg THEN -dp[1] ELSE dp[1])

\* Math.max(a, b) and Math.min(a, b): NaN if either is NaN
MathMax(a, b) == IF a.nan \/ b.nan THEN NaN ELSE Num(IF a.v >= b.v THEN a.v ELSE b.v)
MathMin(a, b) == IF a.nan \/ b.nan THEN NaN ELSE Num(IF a.v <= b.v THEN a.v ELSE b.v)

----------------------------------------------------------------------------
(* JavaScript values                                                       *)

J(t, s, n, keys, kids) == [t |-> t, s |-> s, n |-> n, keys |-> keys, kids |-> kids]

Undef      == J("undef", <<>>, 0, <<>>, <<>>)
Null       == J("null", <<>>, 0, <<>>, <<>>)
False      == J("bool", <<>>, 0, <<>>, <<>>)
True       == J("bool", <<>>, 1, <<>>, <<>>)
NumV(k)    == J("num", <<>>, k, <<>>, <<>>)
Str(s)     == J("str", s, 0, <<>>, <<>>)
Arr(kids)  == J("arr", <<>>, 0, <<>>, kids)
Obj(keys, kids) == J("obj", <<>>, 0, keys, kids)

\* ToBoolean: what `!v`, `v || d` and `if (v)` test
Truthy(v) ==
    CASE v.t \in {"undef", "null", "nan"} -> FALSE
      [] v.t \in {"bool", "num"}          -> v.n # 0
      [] v.t = "str"                      -> v.s # <<>>
      [] OTHER                            -> TRUE

\* a || b
OrElse(a, b) == IF Truthy(a) THEN a ELSE b

\* obj.key: the property of an object, undefined when it has none
Get(v, key) ==
    IF v.t = "obj" /\ \E i \in 1..Len(v.keys) : v.keys[i] = key
    THEN v.kids[CHOOSE i \in 1..Len(v.keys) : v.keys[i] = key]
    ELSE Undef

RECURSIVE JoinTexts(_)
JoinTexts(ts) ==
    IF ts = <<>> THEN <<>>
    ELSE IF Len(ts) = 1 THEN ts[1]
    ELSE ts[1] \o <<",">> \o JoinTexts(Tail(ts))

\* String(v), v.toString(): the text of a value
RECURSIVE ToText(_)
ToText(v) ==
    CASE v.t = "str"   -> v.s
      [] v.t = "num"   -> IntToText(v.n)
      [] v.t = "nan"   -> <<"N", "a", "N">>
      [] v.t = "bool"  -> IF v.n = 1 THEN <<"t", "r", "u", "e">> ELSE <<"f", "a", "l", "s", "e">>
      [] v.t = "null"  -> <<"n", "u", "l", "l">>
      [] v.t = "undef" -> <<"u", "n", "d", "e", "f", "i", "n", "e", "d">>
      [] v.t = "arr"   -> JoinTexts([i \in 1..Len(v.kids) |->
                              IF v.kids[i].t \in {"null", "undef"} THEN <<>> ELSE ToText(v.kids[i])])
      [] OTHER         -> <<"[", "o", "b", "j", "e", "c", "t", " ", "O", "b", "j", "e", "c", "t", "]">>

\* parseInt(v, 10) of any value: the value is first turned into text
parseIntOf(v) == parseInt(ToText(v))

\* Number(x) || 1 for a number x that may be NaN
NumberOr1(x) == IF x.nan \/ x.v = 0 THEN 1 ELSE x.v

----------------------------------------------------------------------------
(* callHuggingFaceModel: the width and height of the upstream parameters   *)

NoSize == [set |-> FALSE, width |-> 0, height |-> 0]

\* the separator of the size text
SizeSeparator == "x"

\* `if (options.size) { parts = String(size).split('x').map(parseInt(trim)); ... }`
sizeParameters(size) ==
    IF ~Truthy(size) THEN NoSize
    ELSE LET texts == Split(ToText(size), SizeSeparator)
             parts == [i \in 1..Len(texts) |-> parseInt(Trim(texts[i]))]
         IN  IF Len(parts) = 2 /\ ~parts[1].nan /\ ~parts[2].nan
             THEN [set |-> TRUE, width |-> parts[1].v, height |-> parts[2].v]
             ELSE NoSize

----------------------------------------------------------------------------
(* callHuggingFaceModel: reading the upstream response                     *)

DataImage == <<"d", "a", "t", "a", ":", "i", "m", "a", "g", "e">>

PngPrefix == DataImage \o <<"/", "p", "n", "g", ";", "b", "a", "s", "e", "6", "4", ",">>

\* the length a bare base64 string must exceed
MinBase64Len == 100

\* one character of the class [A-Za-z0-9+/]
IsBase64Char(c) == c \in Lower \/ c \in Upper \/ IsDigit(c) \/ c \in {"+", "/"}

\* /^[A-Za-z0-9+/]+={0,2}$/.test(s)
MatchesBase64(s) ==
    \E pad \in 0..2 :
        /\ Len(s) > pad
        /\ \A i \in 1..(Len(s) - pad) : IsBase64Char(s[i])
        /\ \A i \in (Len(s) - pad + 1)..Len(s) : s[i] = "="

LooksLikeBase64AnyLength(s) == MatchesBase64(s)

\* the test of the `else if` of extractBase64
LooksLikeBase64(s) == MatchesBase64(s) /\ Len(s) > MinBase64Len

RECURSIVE extractBase64(_, _)
RECURSIVE extractBase64Each(_, _)

\* function extractBase64(obj) of the JSON branch; `images` is the array it
\* pushes to, returned as it stands after the call
extractBase64(obj, images) ==
    IF ~Truthy(obj) THEN images
    ELSE IF obj.t = "str"
         THEN IF StartsWith(obj.s, DataImage) THEN Append(images, obj.s)
              ELSE IF LooksLikeBase64(obj.s) THEN Append(images, PngPrefix \o obj.s)
              ELSE images
    ELSE IF obj.t \in {"arr", "obj"} THEN extractBase64Each(obj.kids, images)
    ELSE images

\* obj.forEach(extractBase64), Object.values(obj).forEach(extractBase64)
extractBase64Each(kids, images) ==
    IF kids = <<>> THEN images
    ELSE extractBase64Each(Tail(kids), extractBase64(Head(kids), images))

RECURSIVE extract(_, _)
RECURSIVE extractEach(_, _)

\* function extract(obj) of the fallback branch
extract(obj, images) ==
    IF ~Truthy(obj) THEN images
    ELSE IF obj.t = "str" /\ StartsWith(obj.s, DataImage) THEN Append(images, obj.s)
    ELSE IF obj.t \in {"arr", "obj"} THEN extractEach(obj.kids, images)
    ELSE images

extractEach(kids, images) ==
    IF kids = <<>> THEN images
    ELSE extractEach(Tail(kids), extract(Head(kids), images))

\* JSON.stringify of a value read from JSON
RECURSIVE Stringify(_)
RECURSIVE StringifyEach(_, _)
Stringify(v) ==
    CASE v.t = "str"  -> <<"\"">> \o v.s \o <<"\"">>
      [] v.t = "arr"  -> <<"[">> \o StringifyEach(<<>>, v.kids) \o <<"]">>
      [] v.t = "obj"  -> <<"{">> \o StringifyEach(v.keys, v.kids) \o <<"}">>
      [] v.t \in {"undef", "nan"} -> <<"n", "u", "l", "l">>
      [] OTHER        -> ToText(v)

StringifyEach(keys, kids) ==
    IF kids = <<>> THEN <<>>
    ELSE (IF keys = <<>> THEN <<>> ELSE <<"\"", Head(keys), "\"", ":">>)
         \o Stringify(Head(kids))
         \o (IF Len(kids) > 1 THEN <<",">> ELSE <<>>)
         \o StringifyEach(IF keys = <<>> THEN <<>> ELSE Tail(keys), Tail(kids))

\* Buffer.from(x).toString('base64'): the encoding is kept as a bracket
\* around the text it encodes (it is one-to-one, and nothing decodes it)
Base64(text) == <<"base64(">> \o text \o <<")">>

\* A response body: a JSON document (its value) or other text
JsonBody(v) == [isJson |-> TRUE, value |-> v, text |-> <<>>]
TextBody(t) == [isJson |-> FALSE, value |-> Undef, text |-> t]

\* Buffer.from(resp.data).toString('utf8')
BodyText(b) == IF b.isJson THEN Stringify(b.value) ELSE b.text

\* contentType.includes('application/json'), contentType.startsWith('image/')
IncludesJson(ct) == ct \in {"application/json", "application/json; charset=utf-8"}
StartsWithImage(ct) == ct \in {"image/png", "image/jpeg"}

Images(imgs) == [kind |-> "images", images |-> imgs, raw |-> Undef]
Raw(v)       == [kind |-> "raw", images |-> <<>>, raw |-> v]
Throw        == [kind |-> "throw", images |-> <<>>, raw |-> Undef]

\* the JSON branch: `try { parsed = JSON.parse(text) } catch { parsed = text }`
jsonBranch(b) ==
    LET parsed == IF b.isJson THEN b.value ELSE Str(b.text)
        images == extractBase64(parsed, <<>>)
    IN  IF Len(images) = 0 THEN Raw(parsed) ELSE Images(images)

\* the image branch
imageBranch(ct, b) == Images(<< <<"data:", ct, ";base64,">> \o Base64(BodyText(b)) >>)

\* the fallback branch; a body that does not parse, or parses to a falsy
\* value, falls through to the final throw
fallbackBranch(b) ==
    IF b.isJson /\ Truthy(b.value)
    THEN LET images == extract(b.value, <<>>)
         IN  IF Len(images) # 0 THEN Images(images) ELSE Raw(b.value)
    ELSE Throw

\* what callHuggingFaceModel returns (or that it throws) for a 2xx response
readResponse(ct, b) ==
    IF IncludesJson(ct) THEN jsonBranch(b)
    ELSE IF StartsWithImage(ct) THEN imageBranch(ct, b)
    ELSE fallbackBranch(b)

DebugPrefix == <<"data:application/json;base64,">>

\* the entry pushed for out.raw
debugEntry(raw) == DebugPrefix \o Base64(Stringify(raw))

\* the loop body of generateWithHuggingFace after the await: what one
\* returned `out` adds to `results`
pushed(out) ==
    IF out.kind = "images" THEN out.images
    ELSE IF out.kind = "raw" /\ Truthy(out.raw) THEN <<debugEntry(out.raw)>>
    ELSE <<>>

----------------------------------------------------------------------------
(* The deployment and its requests                                         *)

Requests == {"r1", "r2"}

\* process.env.PROVIDER: unset, or naming another provider
EnvProviders == {"", "Replicate"}

\* the credential of the running backend: unset, or a secret
Secret == "SECRET-TOKEN"
EnvTokens == {Undef, Str(<<Secret>>)}

Configs == [backend : {"huggingface", "openai"}, envProvider : EnvProviders, token : EnvTokens]

\* String.prototype.toLowerCase on the provider names
ToLower(name) == IF name = "Replicate" THEN "replicate" ELSE name

\* const PROVIDER = (process.env.PROVIDER || '<backend>').toLowerCase()
PROVIDER(c) == ToLower(IF c.envProvider = "" THEN c.backend ELSE c.envProvider)

Fox == <<"f", "o", "x">>

Prompts == {Undef, Str(<<>>), Str(<<" ">>), Str(<<" ", "\t">>), Str(Fox)}
Sizes   == {Undef, Str(<<"2", "x", "3">>)}
Counts  == {Undef, Str(<<"a", "b", "c">>)} \cup {NumV(k) : k \in -1..MaxN}

Bodies == [prompt : Prompts, size : Sizes, n : Counts]

\* res.status(code).json({ error: message }); a key whose value is undefined
\* is left out by JSON
ErrorResponse(code, message) ==
    [status |-> code, hasImages |-> FALSE, images |-> <<>>,
     hasError |-> message.t # "undef", error |-> message]

\* res.json({ images })
ImagesResponse(images) ==
    [status |-> 200, hasImages |-> TRUE, images |-> images, hasError |-> FALSE, error |-> Undef]

MissingPrompt == Str(<<"Missing prompt in request body">>)

BlankNoTrim(prompt) == ~Truthy(prompt)

\* `!prompt || !prompt.toString().trim()`
Blank(prompt) == ~Truthy(prompt) \/ Trim(ToText(prompt)) = <<>>

credentialNeverMissing(token) == FALSE

\* `if (!HF_TOKEN)`, `if (!apiKey)`
credentialMissing(token) == ~Truthy(token)

\* the largest count of each backend
HfMaxCount == 4
OpenAiMaxCount == 10

\* Math.min(Math.max(parseInt(n || 1, 10), 1), max)
clampCount(n, max) == MathMin(MathMax(parseIntOf(OrElse(n, NumV(1))), Num(1)), Num(max))

\* `i < count`: false when count is NaN
LoopRuns(i, cnt) == ~cnt.nan /\ i < cnt.v

callsAtOnce(i, cnt) == i..(cnt.v - 1)

\* the calls started when the loop reaches iteration i: the `await` in the
\* loop body lets one call start per iteration
callsStarted(i, cnt) == {i}

----------------------------------------------------------------------------
(* The upstream's answers                                                  *)

\* an image made for call i of request r
Img(r, i, k) == DataImage \o <<"/", r, "/">> \o IntToText(i) \o <<"/", k>>

Reply(kind, ct, b) == [kind |-> kind, ct |-> ct, body |-> b]

Html == <<"<", "h", "t", "m", "l", ">">>

\* what the inference endpoint may answer to call i of request r
HfReplies(r, i) ==
    { Reply("ok", "image/png", TextBody(<<"bytes", r, "/">> \o IntToText(i))),
      Reply("ok", "application/json",
            JsonBody(Obj(<<"images">>, <<Arr(<<Str(Img(r, i, "a")), Str(Img(r, i, "b"))>>)>>))),
      Reply("ok", "text/plain",
            JsonBody(Obj(<<"images">>, <<Arr(<<Str(Img(r, i, "a")), Str(Img(r, i, "b"))>>)>>))),
      Reply("ok", "application/json", JsonBody(Obj(<<"id">>, <<Str(<<r, "/">> \o IntToText(i))>>))),
      Reply("ok", "application/json", JsonBody(Null)),
      Reply("ok", "text/plain", JsonBody(Null)),
      Reply("ok", "text/plain", TextBody(Html)),
      Reply("http", "application/json", JsonBody(Obj(<<"error">>, <<Str(<<"Model is overloaded">>)>>))),
      Reply("http", "application/json", JsonBody(Obj(<<"error">>, <<Arr(<<Str(<<"bad parameter">>)>>)>>))),
      Reply("http", "application/json", JsonBody(Obj(<<"detail">>, <<Str(<<"nope">>)>>))),
      Reply("http", "application/json", JsonBody(Null)),
      Reply("http", "text/html", TextBody(Html)),
      Reply("network", "", TextBody(<<>>)) }

Url(r, k) == <<"h", "t", "t", "p", "s", ":", "/", "/", r, "/", k>>

\* what the images endpoint may answer to the one call of request r
OpenAiReplies(r) ==
    { Reply("ok", "application/json",
            JsonBody(Obj(<<"data">>, <<Arr(<<Obj(<<"url">>, <<Str(Url(r, "a"))>>),
                                            Obj(<<"b64_json">>, <<Str(<<"Q", r>>)>>)>>)>>))),
      Reply("ok", "application/json",
            JsonBody(Obj(<<"data">>, <<Arr(<<Obj(<<"revised_prompt">>, <<Str(Fox)>>),
                                            Obj(<<"url">>, <<Str(Url(r, "b"))>>)>>)>>))),
      Reply("ok", "application/json", JsonBody(Obj(<<"created">>, <<NumV(1)>>))),
      Reply("ok", "application/json", JsonBody(Obj(<<"data">>, <<Arr(<<Null>>)>>))),
      Reply("ok", "application/json", JsonBody(Obj(<<"data">>, <<Str(<<"none">>)>>))),
      Reply("http", "application/json",
            JsonBody(Obj(<<"error">>, <<Obj(<<"message">>, <<Str(<<"Invalid API key">>)>>)>>))),
      Reply("http", "application/json", JsonBody(Obj(<<"error">>, <<Str(<<"quota">>)>>))),
      Reply("http", "text/html", TextBody(Html)),
      Reply("network", "", TextBody(<<>>)) }

----------------------------------------------------------------------------
(* Errors and the catch blocks of the two handlers                         *)

\* an error: thrown locally (message), or axios rejecting with a response
\* (kind "http", its body) or without one (kind "network")
LocalError(message) == [kind |-> "local", body |-> TextBody(<<>>), message |-> message]
AxiosError(reply) ==
    [kind |-> reply.kind, body |-> reply.body,
     message |-> IF reply.kind = "http" THEN <<"Request failed with status code 500">>
                 ELSE <<"timeout of 120000ms exceeded">>]

GenerationFailed == Str(<<"Generation failed">>)

UnknownFormat == LocalError(<<"Unknown response format from Hugging Face inference">>)

\* the message of the catch block of src/index.js; err.response.data is a
\* Buffer, which is always truthy
hfMessage(err) ==
    IF err.kind = "http"
    THEN IF err.body.isJson /\ err.body.value.t \notin {"null", "undef"}
         THEN OrElse(Get(err.body.value, "error"), Str(Stringify(err.body.value)))
         ELSE Str(BodyText(err.body))
    ELSE IF err.message # <<>> THEN Str(err.message)
    ELSE GenerationFailed

\* err.response.data as axios hands it over with the default responseType
ParsedData(b) == IF b.isJson THEN b.value ELSE Str(b.text)

\* the message of the catch block of src/unnamed/part_000
openaiMessage(err) ==
    IF err.kind = "http" /\ Truthy(ParsedData(err.body))
    THEN OrElse(Get(Get(ParsedData(err.body), "error"), "message"),
                Str(Stringify(ParsedData(err.body))))
    ELSE IF err.message # <<>> THEN Str(err.message)
    ELSE GenerationFailed

\* one element of items.map(...) of generateWithOpenAI; Null is dropped by
\* filter(Boolean)
openaiItem(item) ==
    IF Truthy(Get(item, "b64_json")) THEN Str(PngPrefix \o ToText(Get(item, "b64_json")))
    ELSE IF Truthy(Get(item, "url")) THEN Get(item, "url")
    ELSE Null

RECURSIVE FilterTruthy(_)
FilterTruthy(vs) ==
    IF vs = <<>> THEN <<>>
    ELSE (IF Truthy(Head(vs)) THEN <<Head(vs)>> ELSE <<>>) \o FilterTruthy(Tail(vs))

\* generateWithOpenAI after the await: the images, or the TypeError of
\* mapping something that is no array or of reading a null item
openaiRead(data) ==
    LET items == OrElse(Get(data, "data"), Arr(<<>>))
    IN  IF items.t # "arr"
        THEN [ok |-> FALSE, images |-> <<>>, err |-> LocalError(<<"items.map is not a function">>)]
        ELSE IF \E i \in 1..Len(items.kids) : items.kids[i].t \in {"null", "undef"}
        THEN [ok |-> FALSE, images |-> <<>>,
              err |-> LocalError(<<"Cannot read properties of null (reading 'b64_json')">>)]
        ELSE [ok |-> TRUE, err |-> LocalError(<<>>),
              images |-> FilterTruthy([i \in 1..Len(items.kids) |-> openaiItem(items.kids[i])])]

loopStepSwallow(out) == "next"

\* the loop of generateWithHuggingFace has no try: a throw of
\* callHuggingFaceModel leaves it
loopStep(out) == IF out.kind = "throw" THEN "throw" ELSE "next"

----------------------------------------------------------------------------
(* The server                                                              *)

Call(r, i, n, size, params) == [req |-> r, idx |-> i, n |-> n, size |-> size, params |-> params]

InitServer ==
    /\ cfg \in Configs
    /\ pc = [r \in Requests |-> "idle"]
    /\ body = [r \in Requests |-> [prompt |-> Undef, size |-> Undef, n |-> Undef]]
    /\ count = [r \in Requests |-> Num(0)]
    /\ idx = [r \in Requests |-> 0]
    /\ results = [r \in Requests |-> <<>>]
    /\ inflight = {}
    /\ issued = [r \in Requests |-> <<>>]
    /\ returned = [r \in Requests |-> <<>>]
    /\ responses = [r \in Requests |-> <<>>]

\* the handler ends: one response is written
Finish(r, resp) ==
    /\ pc' = [pc EXCEPT ![r] = "done"]
    /\ responses' = [responses EXCEPT ![r] = Append(@, resp)]

\* the calls of a set in the order of their iterations
InOrder(calls) ==
    [k \in 1..Cardinality(calls) |->
        CHOOSE c \in calls : Cardinality({d \in calls : d.idx < c.idx}) = k - 1]

\* the upstream calls `calls` of request r are sent
Send(r, calls, done) ==
    /\ inflight' = (inflight \ done) \cup calls
    /\ issued' = [issued EXCEPT ![r] = @ \o InOrder(calls)]

\* the handler suspends on the upstream calls `calls`
Await(r, calls) ==
    /\ pc' = [pc EXCEPT ![r] = "waiting"]
    /\ Send(r, calls, {})
    /\ UNCHANGED responses

Unsupported(c) == Str(<<"Unsupported provider: ", PROVIDER(c)>>)

\* the calls of request r for the iterations `is` of the loop
HfCalls(r, size, is) ==
    {Call(r, i, 0, <<>>, sizeParameters(OrElse(size, Str(<<"5", "1", "2", "x", "5", "1", "2">>)))) :
        i \in is}

\* app.post('/api/generate') of src/index.js, up to its first await
PostHf(r, b) ==
    /\ cfg.backend = "huggingface"
    /\ pc[r] = "idle"
    /\ body' = [body EXCEPT ![r] = b]
    /\ UNCHANGED <<cfg, idx, results, returned, sizeVars, normVars>>
    /\ IF Blank(b.prompt)
       THEN Finish(r, ErrorResponse(400, MissingPrompt)) /\ UNCHANGED <<count, inflight, issued>>
       ELSE IF PROVIDER(cfg) # "huggingface"
       THEN Finish(r, ErrorResponse(400, Unsupported(cfg))) /\ UNCHANGED <<count, inflight, issued>>
       ELSE IF credentialMissing(cfg.token)
       THEN /\ Finish(r, ErrorResponse(500, hfMessage(LocalError(<<"HUGGINGFACE_API_TOKEN not configured">>))))
            /\ UNCHANGED <<count, inflight, issued>>
       ELSE LET cnt == clampCount(OrElse(b.n, NumV(1)), HfMaxCount)
            IN  /\ count' = [count EXCEPT ![r] = cnt]
                /\ IF LoopRuns(0, cnt)
                   THEN Await(r, HfCalls(r, b.size, callsStarted(0, cnt)))
                   ELSE Finish(r, ImagesResponse(<<>>)) /\ UNCHANGED <<inflight, issued>>

\* one upstream call of request r returns: callHuggingFaceModel reads the
\* response, the loop pushes and goes on, returns or is left by the throw
HfReturns(r, c, reply) ==
    /\ cfg.backend = "huggingface"
    /\ pc[r] = "waiting"
    /\ c \in inflight /\ c.req = r
    /\ reply \in HfReplies(r, c.idx)
    /\ LET out == IF reply.kind = "ok" THEN readResponse(reply.ct, reply.body) ELSE Throw
           err == IF reply.kind = "ok" THEN UnknownFormat ELSE AxiosError(reply)
           res == results[r] \o pushed(out)
           i   == idx[r] + 1
       IN  /\ returned' = [returned EXCEPT ![r] = Append(@, [idx |-> c.idx, ok |-> out.kind # "throw"])]
           /\ UNCHANGED <<cfg, body, count, sizeVars, normVars>>
           /\ IF loopStep(out) = "throw"
              THEN /\ Finish(r, ErrorResponse(500, hfMessage(err)))
                   /\ inflight' = inflight \ {c}
                   /\ UNCHANGED <<idx, results, issued>>
              ELSE /\ results' = [results EXCEPT ![r] = res]
                   /\ idx' = [idx EXCEPT ![r] = i]
                   /\ IF LoopRuns(i, count[r])
                      THEN /\ Send(r, HfCalls(r, body[r].size, callsStarted(i, count[r])), {c})
                           /\ UNCHANGED <<pc, responses>>
                      ELSE /\ Finish(r, ImagesResponse([k \in 1..Len(res) |-> Str(res[k])]))
                           /\ inflight' = inflight \ {c}
                           /\ UNCHANGED issued

\* app.post('/api/generate') of src/unnamed/part_000, up to its await
PostOpenAi(r, b) ==
    /\ cfg.backend = "openai"
    /\ pc[r] = "idle"
    /\ body' = [body EXCEPT ![r] = b]
    /\ UNCHANGED <<cfg, idx, results, returned, sizeVars, normVars>>
    /\ IF Blank(b.prompt)
       THEN Finish(r, ErrorResponse(400, MissingPrompt)) /\ UNCHANGED <<count, inflight, issued>>
       ELSE LET cnt     == clampCount(b.n, OpenAiMaxCount)
                imgSize == OrElse(b.size, Str(<<"1", "0", "2", "4", "x", "1", "0", "2", "4">>))
            IN  /\ count' = [count EXCEPT ![r] = cnt]
                /\ IF PROVIDER(cfg) # "openai"
                   THEN Finish(r, ErrorResponse(400, Unsupported(cfg))) /\ UNCHANGED <<inflight, issued>>
                   ELSE IF credentialMissing(cfg.token)
                   THEN /\ Finish(r, ErrorResponse(500, openaiMessage(LocalError(<<"OPENAI_API_KEY not configured">>))))
                        /\ UNCHANGED <<inflight, issued>>
                   ELSE Await(r, {Call(r, 0, NumberOr1(cnt), ToText(imgSize), NoSize)})

\* the one upstream call of request r returns
OpenAiReturns(r, c, reply) ==
    /\ cfg.backend = "openai"
    /\ pc[r] = "waiting"
    /\ c \in inflight /\ c.req = r
    /\ reply \in OpenAiReplies(r)
    /\ LET read == IF reply.kind = "ok" THEN openaiRead(ParsedData(reply.body))
                   ELSE [ok |-> FALSE, images |-> <<>>, err |-> AxiosError(reply)]
       IN  /\ returned' = [returned EXCEPT ![r] = Append(@, [idx |-> c.idx, ok |-> read.ok])]
           /\ inflight' = inflight \ {c}
           /\ UNCHANGED <<cfg, body, count, idx, issued, sizeVars, normVars>>
           /\ IF read.ok
              THEN /\ results' = [results EXCEPT ![r] = read.images]
                   /\ Finish(r, ImagesResponse(read.images))
              ELSE /\ UNCHANGED results
                   /\ Finish(r, ErrorResponse(500, openaiMessage(read.err)))

----------------------------------------------------------------------------
(* The size mapping on its own: every options.size text up to MaxSizeLen   *)

SizeAlphabet == {"0", "1", "2", "x", "X", " ", "-", "a"}

SizeTexts == UNION {[1..m -> SizeAlphabet] : m \in 0..MaxSizeLen}

Pending == [done |-> FALSE, set |-> FALSE, width |-> 0, height |-> 0]

InitSize == sizeIn \in SizeTexts /\ sizeOut = Pending

\* callHuggingFaceModel builds the parameters of its payload
MapSize ==
    /\ ~sizeOut.done
    /\ sizeOut' = [done |-> TRUE] @@ sizeParameters(Str(sizeIn))
    /\ UNCHANGED <<sizeIn, serverVars, normVars>>

----------------------------------------------------------------------------
(* The response reading on its own: payloads nested up to MaxDepth         *)

B64(c, k, pad) == Rep(c, k) \o Rep("=", pad)

\* the JSON leaves: strings on both sides of every test of the normalizer,
\* and the values that are no strings
Leaves ==
    { Str(DataImage \o <<"/", "1">>),
      Str(<<"x">> \o DataImage),
      Str(B64("A", MinBase64Len + 1, 0)),
      Str(B64("A", MinBase64Len, 0)),
      Str(B64("A", MinBase64Len - 1, 2)),
      Str(B64("A", MinBase64Len - 2, 3)),
      Str(B64("A", MinBase64Len, 0) \o <<"!">>),
      Str(<<>>), NumV(0), NumV(7), Null, False, True, Obj(<<>>, <<>>), Arr(<<>>) }

\* what a payload is nested beside
Siblings == { Str(DataImage \o <<"/", "2">>), Str(B64("B", MinBase64Len + 1, 0)) }

\* bodies that are no JSON
PlainBodies == { TextBody(Html), TextBody(B64("C", MinBase64Len + 1, 0)) }

ContentTypes == {"application/json", "image/png", "text/plain"}

RECURSIVE Depth(_)
RECURSIVE MaxKidDepth(_)
Depth(v) == IF v.t \in {"arr", "obj"} THEN 1 + MaxKidDepth(v.kids) ELSE 0
MaxKidDepth(kids) ==
    IF kids = <<>> THEN 0
    ELSE LET d == Depth(Head(kids))
             m == MaxKidDepth(Tail(kids))
         IN  IF d >= m THEN d ELSE m

NotRead == [done |-> FALSE, kind |-> "none", images |-> <<>>, raw |-> Undef, pushed |-> <<>>]

InitNorm ==
    /\ payload \in {JsonBody(v) : v \in Leaves} \cup PlainBodies
    /\ ctype = ""
    /\ hfOut = NotRead

\* the upstream wraps its answer once more, in an array or in an object
Nest ==
    /\ ~hfOut.done
    /\ payload.isJson
    /\ Depth(payload.value) < MaxDepth
    /\ \E sib \in Siblings :
         \E kids \in {<<payload.value>>, <<sib, payload.value>>, <<payload.value, sib>>} :
           \/ payload' = JsonBody(Arr(kids))
           \/ payload' = JsonBody(Obj([i \in 1..Len(kids) |-> IF i = 1 THEN "a" ELSE "b"], kids))
    /\ UNCHANGED <<ctype, hfOut, serverVars, sizeVars>>

\* one call of callHuggingFaceModel returns with the payload, and the loop
\* of generateWithHuggingFace pushes what it yields
Read ==
    /\ ~hfOut.done
    /\ \E ct \in ContentTypes :
         /\ ctype' = ct
         /\ LET out == readResponse(ct, payload)
            IN  hfOut' = [done |-> TRUE, kind |-> out.kind, images |-> out.images,
                          raw |-> out.raw, pushed |-> pushed(out)]
    /\ UNCHANGED <<payload, serverVars, sizeVars>>

----------------------------------------------------------------------------
(* Specifications                                                          *)

ParkedServer ==
    /\ cfg = [backend |-> "huggingface", envProvider |-> "", token |-> Undef]
    /\ pc = [r \in Requests |-> "idle"]
    /\ body = [r \in Requests |-> [prompt |-> Undef, size |-> Undef, n |-> Undef]]
    /\ count = [r \in Requests |-> Num(0)]
    /\ idx = [r \in Requests |-> 0]
    /\ results = [r \in Requests |-> <<>>]
    /\ inflight = {}
    /\ issued = [r \in Requests |-> <<>>]
    /\ returned = [r \in Requests |-> <<>>]
    /\ responses = [r \in Requests |-> <<>>]

ParkedSize == sizeIn = <<>> /\ sizeOut = Pending
ParkedNorm == payload = TextBody(<<>>) /\ ctype = "" /\ hfOut = NotRead

Init == InitServer /\ ParkedSize /\ ParkedNorm
Next ==
    \/ \E r \in Requests, b \in Bodies : PostHf(r, b)
    \/ \E r \in Requests, c \in inflight : \E reply \in HfReplies(c.req, c.idx) : HfReturns(r, c, reply)
    \/ \E r \in Requests, b \in Bodies : PostOpenAi(r, b)
    \/ \E r \in Requests, c \in inflight : \E reply \in OpenAiReplies(c.req) : OpenAiReturns(r, c, reply)
Spec == Init /\ [][Next]_vars

InitSizeSpec == ParkedServer /\ InitSize /\ ParkedNorm
NextSize == MapSize
SpecSize == InitSizeSpec /\ [][NextSize]_vars

InitNormSpec == ParkedServer /\ ParkedSize /\ InitNorm
NextNorm == Nest \/ Read
SpecNorm == InitNormSpec /\ [][NextNorm]_vars

----------------------------------------------------------------------------
(* Properties of the request handlers (checked under Spec)                 *)

\* a prompt that is missing, empty or made of white space only
PromptMissingOrBlank(p) ==
    \/ p.t = "undef"
    \/ p.t = "str" /\ \A i \in 1..Len(p.s) : IsSpace(p.s[i])

\* the provider selection names the backend that runs
ProviderMatches == PROVIDER(cfg) = cfg.backend

InFlightOf(r) == {c \in inflight : c.req = r}

\* C1: a POST whose prompt is missing, empty or white space only is answered,
\* by either backend and whatever the provider selection, the credential,
\* size and n are, with status 400 and the body
\* {error: "Missing prompt in request body"}, and no upstream call is made.
BlankPromptAnswered400 ==
    \A r \in Requests :
        (pc[r] # "idle" /\ PromptMissingOrBlank(body[r].prompt)) =>
            /\ pc[r] = "done"
            /\ Len(responses[r]) = 1
            /\ responses[r][1].status = 400
            /\ responses[r][1].hasError /\ ~responses[r][1].hasImages
            /\ responses[r][1].error = Str(<<"Missing prompt in request body">>)
            /\ issued[r] = <<>> /\ InFlightOf(r) = {}

\* a white-space-only prompt was refused by a deployment that is fully
\* configured, in a request that also asked for a size and two images
BlankPromptWitness ==
    \E r \in Requests :
        /\ pc[r] = "done"
        /\ body[r].prompt = Str(<<" ", "\t">>)
        /\ body[r].n = NumV(2) /\ body[r].size # Undef
        /\ ProviderMatches /\ cfg.token # Undef
        /\ responses[r][1].status = 400

\* what an adapter should use for a requested count: clamp(n, 1, max), an
\* absent n counting as 1
ClampTo(n, max) ==
    LET k == IF n.t = "num" THEN n.n ELSE 1
    IN  IF k < 1 THEN 1 ELSE IF k > max THEN max ELSE k

\* C2: the effective count of an adapter is clamp(n, 1, adapter_max) -- the n
\* sent upstream by the synchronous backend (max 10), the number of upstream
\* calls of the inference backend (max 4) -- and is never below 1, for a
\* non-numeric n too.
EffectiveCountIsClamped ==
    \A r \in Requests :
        (pc[r] # "idle" /\ ~PromptMissingOrBlank(body[r].prompt)
            /\ ProviderMatches /\ cfg.token # Undef) =>
            /\ cfg.backend = "openai" =>
                  /\ Len(issued[r]) = 1
                  /\ issued[r][1].n >= 1
                  /\ body[r].n.t \in {"num", "undef"} =>
                        issued[r][1].n = ClampTo(body[r].n, 10)
            /\ (cfg.backend = "huggingface" /\ pc[r] = "done" /\ responses[r][1].status = 200) =>
                  /\ Len(issued[r]) >= 1
                  /\ body[r].n.t \in {"num", "undef"} =>
                        Len(issued[r]) = ClampTo(body[r].n, 4)

\* C3: every request gets exactly one response; 200 carries images (a list
\* of strings) and no error; 400 (blank prompt, unsupported provider) and 500
\* carry error (a string) and no images; there is no other status.
OneResponseImagesOrError ==
    \A r \in Requests :
        /\ Len(responses[r]) = (IF pc[r] = "done" THEN 1 ELSE 0)
        /\ \A k \in 1..Len(responses[r]) :
             LET resp == responses[r][k]
             IN  /\ resp.status \in {200, 400, 500}
                 /\ resp.status = 200 =>
                        /\ resp.hasImages /\ ~resp.hasError
                        /\ \A i \in 1..Len(resp.images) : resp.images[i].t = "str"
                 /\ resp.status # 200 =>
                        /\ resp.hasError /\ ~resp.hasImages
                        /\ resp.error.t = "str"
                 /\ resp.status = 400 =>
                        PromptMissingOrBlank(body[r].prompt) \/ ~ProviderMatches

\* C4: with the credential of the running backend not configured, a request
\* with a valid prompt and a matching provider selection fails before any
\* upstream call and is answered with status 500; the error message holds no
\* secret value.
MissingCredentialAnswered500 ==
    \A r \in Requests :
        (pc[r] # "idle" /\ ~PromptMissingOrBlank(body[r].prompt)
            /\ ProviderMatches /\ cfg.token = Undef) =>
            /\ pc[r] = "done"
            /\ issued[r] = <<>> /\ InFlightOf(r) = {}
            /\ Len(responses[r]) = 1
            /\ responses[r][1].status = 500
            /\ responses[r][1].hasError /\ ~responses[r][1].hasImages
            /\ responses[r][1].error.t = "str"
            /\ \A i \in 1..Len(responses[r][1].error.s) : responses[r][1].error.s[i] # Secret

\* the inference backend, without its token, answered a valid request
MissingCredentialWitness ==
    \E r \in Requests :
        /\ cfg.backend = "huggingface" /\ ProviderMatches /\ cfg.token = Undef
        /\ body[r].prompt = Str(Fox)
        /\ pc[r] = "done"
        /\ responses[r][1].status = 500
        /\ responses[r][1].error = Str(<<"HUGGINGFACE_API_TOKEN not configured">>)

\* the request an entry of a result list was made for, and the call
TaggedAt(e) == {j \in 1..Len(e) : e[j] \in Requests}
EntryCall(e) == DigitVal(e[(CHOOSE j \in TaggedAt(e) : TRUE) + 2])

\* C9: in the inference backend the upstream calls of one request are
\* strictly sequential: at most one is in flight, call i+1 is issued only
\* after call i has returned, the images of call i precede those of call i+1;
\* this holds per request while several requests are handled, and no result
\* list holds an image made for another request.
UpstreamCallsSequential ==
    \A r \in Requests :
        cfg.backend = "huggingface" =>
            /\ Cardinality(InFlightOf(r)) <= 1
            /\ Len(issued[r]) = Len(returned[r]) + Cardinality(InFlightOf(r))
            /\ \A k \in 1..Len(issued[r]) : issued[r][k].idx = k - 1
            /\ \A k \in 1..Len(returned[r]) : returned[r][k].idx = k - 1
            /\ \A p \in 1..Len(results[r]) :
                 /\ \A j \in TaggedAt(results[r][p]) : results[r][p][j] = r
                 /\ TaggedAt(results[r][p]) # {}
                 /\ \A q \in 1..Len(results[r]) :
                      p < q => EntryCall(results[r][p]) <= EntryCall(results[r][q])
            /\ \A k \in 1..Len(responses[r]) :
                 \A p \in 1..Len(responses[r][k].images) :
                    \A j \in TaggedAt(responses[r][k].images[p].s) :
                        responses[r][k].images[p].s[j] = r

\* two requests wait on the upstream at once, one of them on its second call
\* with the images of its first call collected
SequentialWitness ==
    /\ cfg.backend = "huggingface"
    /\ pc["r1"] = "waiting" /\ pc["r2"] = "waiting"
    /\ idx["r1"] = 1 /\ Len(results["r1"]) = 2
    /\ Len(issued["r1"]) = 2 /\ Len(returned["r1"]) = 1
    /\ Len(results["r2"]) > 0

\* C10: a generation of the inference backend is all or nothing: when the
\* k-th upstream call fails, no further call is issued for the request, the
\* images of the calls before it are dropped, and the answer is status 500
\* with an error field and no images field.
FailedCallAbortsGeneration ==
    \A r \in Requests :
        (cfg.backend = "huggingface" /\ \E k \in 1..Len(returned[r]) : ~returned[r][k].ok) =>
            /\ \A k \in 1..(Len(returned[r]) - 1) : returned[r][k].ok
            /\ pc[r] = "done"
            /\ Len(issued[r]) = Len(returned[r]) /\ InFlightOf(r) = {}
            /\ Len(responses[r]) = 1
            /\ responses[r][1].status = 500
            /\ responses[r][1].hasError /\ ~responses[r][1].hasImages
            /\ responses[r][1].images = <<>>

\* the second call of a request failed after the first had delivered images
FailedCallWitness ==
    \E r \in Requests :
        /\ cfg.backend = "huggingface"
        /\ Len(returned[r]) = 2 /\ returned[r][1].ok /\ ~returned[r][2].ok
        /\ Len(results[r]) > 0
        /\ pc[r] = "done" /\ responses[r][1].status = 500

----------------------------------------------------------------------------
(* Properties of the size mapping (checked under SpecSize)                 *)

\* the text of a positive integer: digits only, not all of them zero
IsPositiveIntegerText(t) ==
    /\ t # <<>>
    /\ \A i \in 1..Len(t) : IsDigit(t[i])
    /\ \E i \in 1..Len(t) : t[i] # "0"

\* the parts of a size text around its separators, 'x' or 'X'
RECURSIVE SizeParts(_, _)
SizeParts(t, cur) ==
    IF t = <<>> THEN <<cur>>
    ELSE IF Head(t) \in {"x", "X"} THEN <<cur>> \o SizeParts(Tail(t), <<>>)
    ELSE SizeParts(Tail(t), Append(cur, Head(t)))

\* <integer>x<integer>, both positive, white space around the parts allowed
WellFormedSize(t) ==
    LET parts == SizeParts(t, <<>>)
    IN  /\ Len(parts) = 2
        /\ IsPositiveIntegerText(Trim(parts[1]))
        /\ IsPositiveIntegerText(Trim(parts[2]))

\* C5: the size mapping supplies width and height exactly when the text is
\* <integer>x<integer> with both parts positive ('x' or 'X', white space
\* around the parts allowed), and then they are that pair; for every other
\* text neither is supplied.
SizeSuppliedIffWellFormed ==
    sizeOut.done =>
        /\ sizeOut.set <=> WellFormedSize(sizeIn)
        /\ sizeOut.set =>
             /\ sizeOut.width  = DigitsPrefix(Trim(SizeParts(sizeIn, <<>>)[1]), 0, 0)[1]
             /\ sizeOut.height = DigitsPrefix(Trim(SizeParts(sizeIn, <<>>)[2]), 0, 0)[1]

----------------------------------------------------------------------------
(* Properties of the response reading (checked under SpecNorm)             *)

\* the strings of a value in depth-first order, siblings left to right
RECURSIVE StringsOf(_)
RECURSIVE StringsOfAll(_)
StringsOf(v) ==
    IF v.t = "str" THEN <<v.s>>
    ELSE IF v.t \in {"arr", "obj"} THEN StringsOfAll(v.kids)
    ELSE <<>>
StringsOfAll(kids) ==
    IF kids = <<>> THEN <<>> ELSE StringsOf(Head(kids)) \o StringsOfAll(Tail(kids))

\* how many '=' end a text
RECURSIVE TrailingEquals(_)
TrailingEquals(t) ==
    IF t # <<>> /\ t[Len(t)] = "=" THEN 1 + TrailingEquals(SubSeq(t, 1, Len(t) - 1)) ELSE 0

\* a string the normalizer is to accept
Qualifies(t) ==
    \/ StartsWith(t, DataImage)
    \/ /\ Len(t) > 100
       /\ TrailingEquals(t) <= 2
       /\ \A i \in 1..(Len(t) - TrailingEquals(t)) : IsBase64Char(t[i])

\* what the normalizer is to return for a value
Accepted(v) ==
    LET q == SelectSeq(StringsOf(v), Qualifies)
    IN  [i \in 1..Len(q) |-> IF StartsWith(q[i], DataImage) THEN q[i] ELSE PngPrefix \o q[i]]

\* C7: for every JSON value the normalizer of the JSON branch returns
\* exactly the accepted strings in depth-first order: a string starting with
\* "data:image" unchanged, a string longer than 100 characters of the base64
\* alphabet with at most two trailing '=' behind "data:image/png;base64,",
\* nothing for any other value; one entry per qualifying string, siblings in
\* their order.
NormalizerReturnsAccepted ==
    (hfOut.done /\ IncludesJson(ctype) /\ payload.isJson) =>
        IF Accepted(payload.value) = <<>>
        THEN hfOut.kind = "raw" /\ hfOut.images = <<>>
        ELSE hfOut.kind = "images" /\ hfOut.images = Accepted(payload.value)

\* a payload nested twice, three strings accepted: a bare base64 string, the
\* data URL beside it, and the sibling of the enclosing level
NormalizerWitness ==
    /\ hfOut.done /\ IncludesJson(ctype) /\ payload.isJson
    /\ Depth(payload.value) = 2
    /\ Len(StringsOf(payload.value)) = 3
    /\ hfOut.images = << Str(DataImage \o <<"/", "2">>).s,
                         PngPrefix \o B64("A", 99, 2),
                         PngPrefix \o B64("B", 101, 0) >>

\* C6: when the body of a call parses as JSON and the normalizer finds no
\* image, whatever the parsed payload is (falsy values included), the call
\* does not fail and exactly one debug entry, the data:application/json
\* encoding of the whole payload, is added to the result list.
ZeroImagesGiveOneDebugEntry ==
    (hfOut.done /\ ~StartsWithImage(ctype) /\ payload.isJson
        /\ Accepted(payload.value) = <<>>) =>
        /\ hfOut.kind # "throw"
        /\ hfOut.pushed = << <<"data:application/json;base64,">> \o Base64(Stringify(payload.value)) >>

\* C8: the fallback branch extracts from a parsed payload the images the
\* JSON branch extracts from it, the bare base64 strings included.
FallbackExtractsAsJsonBranch ==
    (hfOut.done /\ ~IncludesJson(ctype) /\ ~StartsWithImage(ctype) /\ payload.isJson) =>
        hfOut.images = jsonBranch(payload).images

====
